---- MODULE Spec2Model ----
(***************************************************************************)
(* A model of src/main.py: the streaming client (DouBaoTester.test_model), *)
(* the sequential test runner (TestWorker), the application shell          *)
(* (LatencyTesterFrame) and the wx.CallAfter hand-off between them.        *)
(*                                                                         *)
(* Three groups of variables, one per component, each exercised by its own *)
(* specification:                                                          *)
(*   SpecStream  one call of test_model on a bounded server response       *)
(*   Spec        Start/Stop clicks, worker threads, the CallAfter queue    *)
(*   SpecModels  the model list: edit, fetch thread, on_models_loaded      *)
(*                                                                         *)
(* Python values: None is NONE (the empty tuple) and a present value v is  *)
(* Some(v); a str is a TLA+ string, except the model identifiers of the    *)
(* model list, which are stripped: those are sequences of characters, a    *)
(* character being " " (whitespace) or a non-blank token.                  *)
(***************************************************************************)
EXTENDS Integers, Sequences, FiniteSets, TLC

VARIABLES
    \* ---- SpecStream: one invocation of test_model
    tm_pc,          \* "ready" | "done"
    tm_in,          \* the call's inputs: model, client construction, response, clock
    tm_out,         \* what the call did: raised, or returned a result dict
    \* ---- Spec: the UI thread
    ui_pc,          \* "idle" | "joining" (inside worker.join(timeout=1))
    start_enabled,  \* self.start_btn
    stop_enabled,   \* self.stop_btn
    progress_text,  \* self.progress_text label
    worker,         \* self.worker: 0 (None) or the id of the last worker created
    results,        \* self.results
    grid,           \* self.results_grid rows
    queue,          \* wx.CallAfter: pending on_worker_callback calls, FIFO
    \* ---- Spec: the TestWorker threads, by id 1..MaxWorkers
    w_pc,           \* "unstarted" | "loop" | "call" | "request" | "exiting" | "dead"
    w_models,       \* self.models
    w_i,            \* the loop index i of run()
    w_results,      \* the local list results of run()
    w_stop,         \* self._stop_event
    w_client,       \* this thread's slot of tester._client_local
    w_crashed,      \* run() ended by an uncaught exception
    emitted,        \* history: the notifications the worker handed to wx.CallAfter
    called,         \* history: the models test_model was invoked for
    stop_seen,      \* history: where the worker was when stop() was first called
    \* ---- SpecModels: the model list and its fetch thread
    current_models, \* self.current_models
    checked,        \* the checked strings of self.model_list, in list order
    load_enabled,   \* self.load_models_btn
    fetch_pc,       \* per fetch thread: "unstarted" | "running" | "posted" | "dead"
    fetch_thread,   \* self.model_fetch_thread: 0 (None) or the id of the last thread
    mqueue,         \* wx.CallAfter: pending on_models_loaded calls, FIFO
    loaded,         \* history: per fetch thread, the on_models_loaded calls run for it
    fetch_rejected, \* history: a click on the load button was refused, a fetch being alive
    last_update     \* history: the models of the last update_model_list call, until the
                    \* next fetch thread starts

stream_vars == <<tm_pc, tm_in, tm_out>>
ui_vars     == <<ui_pc, start_enabled, stop_enabled, progress_text, worker, results, grid, queue>>
worker_vars == <<w_pc, w_models, w_i, w_results, w_stop, w_client, w_crashed, emitted, called, stop_seen>>
model_vars  == <<current_models, checked, load_enabled, fetch_pc, fetch_thread, mqueue, loaded,
                 fetch_rejected, last_update>>
vars        == <<stream_vars, ui_vars, worker_vars, model_vars>>

(***************************************************************************)
(* Bounds                                                                  *)
(***************************************************************************)
MaxTime == 2
MaxChunks == 2
MaxWorkers == 2
MaxSelected == 3
MaxFetches == 2
MaxEntries == 4

(***************************************************************************)
(* Python values                                                           *)
(***************************************************************************)
NONE == <<>>
Some(v) == <<v>>
\* the truth value of an Optional[str]: None and "" are falsy
Truthy(o) == o # NONE /\ o[1] # ""

RECURSIVE Join(_)
\* "".join(parts)
Join(parts) == IF parts = <<>> THEN "" ELSE Head(parts) \o Join(Tail(parts))

(***************************************************************************)
(* DouBaoTester.test_model                                                 *)
(***************************************************************************)
\* _get_client: the thread's cached client, or a newly constructed Ark client.
\* cached: the thread-local slot holds a client; ctor_ok: Ark(...) returns.
get_client(cached, ctor_ok) ==
    IF cached THEN [raised |-> FALSE, cached |-> TRUE]
    ELSE IF ctor_ok THEN [raised |-> FALSE, cached |-> TRUE]
    ELSE [raised |-> TRUE, cached |-> FALSE]

\* lines 111-115: reasoning text, then content text, of one delta
Piece(delta) ==
    (IF Truthy(delta.reasoning_content) THEN delta.reasoning_content[1] ELSE "")
      \o (IF Truthy(delta.content) THEN delta.content[1] ELSE "")

\* lines 118-120 without the guard of line 118: every fragment overwrites
\* first_token_time (a faulty variant)
record_piece_overwrite(acc, piece, now, start_time) ==
    [first_token_time |-> Some(now - start_time),
     collected_parts |-> Append(acc.collected_parts, piece)]

\* lines 118-120: the first non-empty piece sets first_token_time; every one is kept
record_piece(acc, piece, now, start_time) ==
    [first_token_time |-> IF acc.first_token_time = NONE
                          THEN Some(now - start_time)
                          ELSE acc.first_token_time,
     collected_parts |-> Append(acc.collected_parts, piece)]

RECURSIVE consume_choices(_, _, _, _, _)
\* lines 107-120: the choices of one chunk, from the k-th on; now is time.time()
\* while the chunk is processed
consume_choices(choices, k, now, start_time, acc) ==
    IF k > Len(choices) THEN acc
    ELSE LET delta == choices[k].delta IN
         IF delta = NONE THEN consume_choices(choices, k + 1, now, start_time, acc)
         ELSE LET piece == Piece(delta[1]) IN
              IF piece = "" THEN consume_choices(choices, k + 1, now, start_time, acc)
              ELSE consume_choices(choices, k + 1, now, start_time,
                                   record_piece(acc, piece, now, start_time))

RECURSIVE consume_stream(_, _, _, _)
\* lines 104-120: the chunks of the stream, from the n-th on
consume_stream(chunks, n, start_time, acc) ==
    IF n > Len(chunks) THEN acc
    ELSE IF chunks[n].choices = <<>> THEN consume_stream(chunks, n + 1, start_time, acc)
    ELSE consume_stream(chunks, n + 1, start_time,
                        consume_choices(chunks[n].choices, 1, chunks[n].at, start_time, acc))

\* lines 122-127: a complete message instead of a stream; now is time.time() at line 127
consume_completion(choices, now, start_time, acc) ==
    IF choices = <<>> THEN acc
    ELSE LET message_obj == choices[1].message IN
         IF message_obj # NONE /\ Truthy(message_obj[1].content)
         THEN [first_token_time |-> Some(now - start_time),
               collected_parts |-> Append(acc.collected_parts, message_obj[1].content[1])]
         ELSE acc

\* lines 132-140 without the fall-back of line 134 (a faulty variant)
success_result_no_fallback(model_name, first_token_time, total_time, full_response) ==
    [model |-> model_name,
     first_token_time |-> first_token_time,
     total_time |-> Some(total_time),
     success |-> TRUE,
     response_length |-> Len(full_response)]

\* lines 132-140: the success dict (response_preview and timestamp are not modelled:
\* nothing reads them but the CSV export)
success_result(model_name, first_token_time, total_time, full_response) ==
    [model |-> model_name,
     first_token_time |-> IF first_token_time # NONE THEN first_token_time
                          ELSE Some(total_time),
     total_time |-> Some(total_time),
     success |-> TRUE,
     response_length |-> Len(full_response)]

\* lines 142-159: the failure dicts; msg is str(e)
failure_result(model_name, exc, msg) ==
    [model |-> model_name,
     first_token_time |-> NONE,
     total_time |-> NONE,
     success |-> FALSE,
     error |-> (IF exc = "ArkAPIError" THEN "Ark API error: " ELSE "unknown error: ") \o msg]

\* lines 92-159: the try statement, for the server response resp
test_model_try(model_name, resp) ==
    LET acc0 == [first_token_time |-> NONE, collected_parts |-> <<>>] IN
    IF resp.kind = "create_raises" THEN failure_result(model_name, resp.exc, resp.msg)
    ELSE IF resp.kind = "stream" /\ resp.exc # NONE
         THEN failure_result(model_name, resp.exc[1], resp.msg)
    ELSE LET acc == IF resp.kind = "stream"
                    THEN consume_stream(resp.chunks, 1, resp.t0, acc0)
                    ELSE consume_completion(resp.choices, resp.t_msg, resp.t0, acc0)
             total_time == resp.t_end - resp.t0
         IN success_result(model_name, acc.first_token_time, total_time,
                           Join(acc.collected_parts))

\* lines 69-159: the whole call. The client is obtained at line 90, before the try
\* statement: an exception of the Ark constructor leaves test_model.
test_model(model_name, cached, ctor_ok, resp) ==
    IF get_client(cached, ctor_ok).raised
    THEN [raised |-> TRUE, value |-> NONE]
    ELSE [raised |-> FALSE, value |-> Some(test_model_try(model_name, resp))]

(***************************************************************************)
(* SpecStream: test_model on every bounded response and clock              *)
(***************************************************************************)
Times == 0..MaxTime

Deltas == {[reasoning_content |-> r, content |-> c] :
              r \in {NONE, Some("r")}, c \in {NONE, Some(""), Some("c")}}

NoDelta == [delta |-> NONE]
Choice(r, c) == [delta |-> Some([reasoning_content |-> r, content |-> c])]

\* chunk.choices of the chunks a server sends: none, a null delta, empty deltas,
\* content only, reasoning and content, and two choices in one chunk
ChoiceLists ==
    { <<>>,
      <<NoDelta>>,
      <<Choice(NONE, Some(""))>>,
      <<Choice(NONE, Some("c"))>>,
      <<Choice(Some("r"), Some("c"))>>,
      <<Choice(Some("r"), NONE), Choice(NONE, Some("c"))>> }

Chunks == [at : Times, choices : ChoiceLists]

\* the chunk sequences of at most MaxChunks chunks
ChunkSeqs == UNION {[1..n -> Chunks] : n \in 0..MaxChunks}

\* time.time() never goes back: start, each chunk in turn, the end
NonDecreasing(t0, chunks, t_end) ==
    /\ \A n \in 1..Len(chunks) : t0 <= chunks[n].at /\ chunks[n].at <= t_end
    /\ \A n \in 1..(Len(chunks) - 1) : chunks[n].at <= chunks[n + 1].at
    /\ t0 <= t_end

\* choices of a complete (non-streaming) message
Messages ==
    { <<>>,
      <<[message |-> NONE]>>,
      <<[message |-> Some([content |-> NONE])]>>,
      <<[message |-> Some([content |-> Some("")])]>>,
      <<[message |-> Some([content |-> Some("hi")])]>>,
      <<[message |-> Some([content |-> Some("hi")])], [message |-> Some([content |-> Some("more")])]>> }

Response(kind, exc, msg, chunks, choices, t0, t_msg, t_end) ==
    [kind |-> kind, exc |-> exc, msg |-> msg, chunks |-> chunks, choices |-> choices,
     t0 |-> t0, t_msg |-> t_msg, t_end |-> t_end]

ErrorTexts == {"", "boom"}

\* what client.chat.completions.create and the stream can do, with the clock's
\* readings: create raises; a stream of chunks that ends, or raises after its
\* chunks; a complete message
Responses ==
    {Response("create_raises", Some(e), m, <<>>, <<>>, t0, t0, t0) :
        e \in {"ArkAPIError", "Exception"}, m \in ErrorTexts, t0 \in Times}
    \cup
    {r \in {Response("stream", NONE, "", ch, <<>>, t0, t0, t1) :
                ch \in ChunkSeqs, t0 \in Times, t1 \in Times} :
        NonDecreasing(r.t0, r.chunks, r.t_end)}
    \cup
    {r \in {Response("stream", Some(e), m, ch, <<>>, t0, t0, t0) :
                ch \in ChunkSeqs, t0 \in Times,
                e \in {"ArkAPIError", "Exception"}, m \in ErrorTexts} :
        NonDecreasing(r.t0, r.chunks, MaxTime)}
    \cup
    {r \in {Response("completion", NONE, "", <<>>, cs, t0, t1, t2) :
                cs \in Messages, t0 \in Times, t1 \in Times, t2 \in Times} :
        r.t0 <= r.t_msg /\ r.t_msg <= r.t_end}

\* cached, ctor_ok: the thread has a client already; or Ark(...) returns; or raises
ClientCases == {<<TRUE, TRUE>>, <<FALSE, TRUE>>, <<FALSE, FALSE>>}

TestInputs ==
    {[model_name |-> "m", cached |-> c[1], ctor_ok |-> c[2], resp |-> r] :
        c \in ClientCases, r \in Responses}

NoOutput == [raised |-> FALSE, value |-> NONE]

InitStream ==
    /\ tm_pc = "ready"
    /\ tm_in \in TestInputs
    /\ tm_out = NoOutput

\* the stream variables of the specifications that do not call test_model alone
IdleStream ==
    /\ tm_pc = "idle"
    /\ tm_in = [model_name |-> "m", cached |-> TRUE, ctor_ok |-> TRUE,
                resp |-> Response("stream", NONE, "", <<>>, <<>>, 0, 0, 0)]
    /\ tm_out = NoOutput

\* one call of test_model
RunTestModel ==
    /\ tm_pc = "ready"
    /\ tm_pc' = "done"
    /\ tm_out' = test_model(tm_in.model_name, tm_in.cached, tm_in.ctor_ok, tm_in.resp)
    /\ UNCHANGED <<tm_in, ui_vars, worker_vars, model_vars>>

(***************************************************************************)
(* ResultsGrid.add_result                                                  *)
(***************************************************************************)
MS_PER_SECOND == 1000
FAST_FIRST_TOKEN == 1
SLOW_FIRST_TOKEN == 3
FAST_TOTAL == 3
SLOW_TOTAL == 10

\* lines 239-247: GREEN below the fast threshold, RED above the slow one
cell_colour(t, fast, slow) ==
    IF t # NONE /\ t[1] < fast THEN "GREEN"
    ELSE IF t # NONE /\ t[1] > slow THEN "RED"
    ELSE "default"

\* lines 230-231: milliseconds, or N/A (NONE) for a missing time
to_ms(t) == IF t # NONE THEN Some(t[1] * MS_PER_SECOND) ELSE NONE

\* lines 227-255: the row appended for one result (the timestamp cell is not modelled)
grid_row(result) ==
    IF result.success
    THEN [model |-> result.model,
          first_token_ms |-> to_ms(result.first_token_time),
          total_ms |-> to_ms(result.total_time),
          response_length |-> Some(result.response_length),
          status |-> "success",
          first_token_colour |-> cell_colour(result.first_token_time, FAST_FIRST_TOKEN, SLOW_FIRST_TOKEN),
          total_colour |-> cell_colour(result.total_time, FAST_TOTAL, SLOW_TOTAL),
          status_colour |-> "default"]
    ELSE [model |-> result.model,
          first_token_ms |-> NONE,
          total_ms |-> NONE,
          response_length |-> NONE,
          status |-> "failed: " \o result.error,
          first_token_colour |-> "default",
          total_colour |-> "default",
          status_colour |-> "RED"]

\* line 225 inserting the row at the top instead of appending it (a faulty variant)
add_result_at_front(rows, result) == <<grid_row(result)>> \o rows

\* lines 222-256
add_result(rows, result) == Append(rows, grid_row(result))

(***************************************************************************)
(* Spec: the UI thread, the TestWorker threads and the wx.CallAfter queue  *)
(***************************************************************************)
Workers == 1..MaxWorkers

\* model_list.GetCheckedStrings() for a list a, b, c: nothing checked, one item,
\* two items, all three, in list order
Selections == { <<>>, <<"b">>, <<"a", "c">>, <<"a", "b", "c">> }

\* the server's answers to the worker's requests: a one-fragment stream, a stream
\* without fragments, a failed request
WorkerResponses ==
    { Response("stream", NONE, "", <<[at |-> 1, choices |-> <<Choice(NONE, Some("c"))>>]>>,
               <<>>, 0, 0, 2),
      Response("create_raises", Some("ArkAPIError"), "boom", <<>>, <<>>, 0, 0, 0) }

Label(text, current, total, model) ==
    [text |-> text, current |-> current, total |-> total, model |-> model]

READY == Label("ready", 0, 0, "")

\* Thread.is_alive(): started and run() not yet ended
is_alive(w) == w_pc[w] \in {"loop", "call", "request", "exiting"}

Started == {w \in Workers : w_pc[w] # "unstarted"}

RECURSIVE SelectedSoFar(_)
\* the models selected in the runs started so far, the first n workers'
SelectedSoFar(n) == IF n = 0 THEN 0 ELSE Len(w_models[n]) + SelectedSoFar(n - 1)

Notification(w, type, data) == [w |-> w, type |-> type, data |-> data]

\* wx.CallAfter(self.callback, type, data) by worker w
CallAfter(w, type, data) ==
    /\ queue' = Append(queue, Notification(w, type, data))
    /\ emitted' = [emitted EXCEPT ![w] = Append(@, [type |-> type, data |-> data])]

InitRunner ==
    /\ ui_pc = "idle"
    /\ start_enabled = TRUE
    /\ stop_enabled = FALSE
    /\ progress_text = READY
    /\ worker = 0
    /\ results = <<>>
    /\ grid = <<>>
    /\ queue = <<>>
    /\ w_pc = [w \in Workers |-> "unstarted"]
    /\ w_models = [w \in Workers |-> <<>>]
    /\ w_i = [w \in Workers |-> 0]
    /\ w_results = [w \in Workers |-> <<>>]
    /\ w_stop = [w \in Workers |-> FALSE]
    /\ w_client = [w \in Workers |-> FALSE]
    /\ w_crashed = [w \in Workers |-> FALSE]
    /\ emitted = [w \in Workers |-> <<>>]
    /\ called = [w \in Workers |-> <<>>]
    /\ stop_seen = [w \in Workers |-> NONE]

\* lines 564-568
reset_ui ==
    /\ start_enabled' = TRUE
    /\ stop_enabled' = FALSE
    /\ progress_text' = READY

\* lines 383-419: a click on Start. The three empty-input checks return early;
\* otherwise a new tester and a new TestWorker are created and started.
on_start_test(api_key, selected_models, user_input) ==
    /\ ui_pc = "idle"
    /\ start_enabled
    /\ IF api_key = "" \/ selected_models = <<>> \/ user_input = ""
       THEN UNCHANGED vars
       ELSE /\ Cardinality(Started) < MaxWorkers
            /\ SelectedSoFar(Cardinality(Started)) + Len(selected_models) <= MaxSelected
            /\ LET w == Cardinality(Started) + 1 IN
               /\ worker' = w
               /\ w_pc' = [w_pc EXCEPT ![w] = "loop"]
               /\ w_models' = [w_models EXCEPT ![w] = selected_models]
            /\ start_enabled' = FALSE
            /\ stop_enabled' = TRUE
            /\ progress_text' = Label("running", 0, 0, "")
            /\ UNCHANGED <<ui_pc, results, grid, queue, w_i, w_results, w_stop, w_client,
                           w_crashed, emitted, called, stop_seen, stream_vars, model_vars>>

OnStartTest ==
    \E api_key \in {"", "key"}, selected_models \in Selections, user_input \in {"", "hi"} :
        on_start_test(api_key, selected_models, user_input)

\* the number of result notifications of worker w the UI thread has run
Delivered(w) ==
    Cardinality({k \in 1..Len(emitted[w]) : emitted[w][k].type = "result"})
      - Cardinality({k \in 1..Len(queue) : queue[k].w = w /\ queue[k].type = "result"})

\* lines 205-206, and what the worker had done by then (history)
stop(w) ==
    /\ w_stop' = [w_stop EXCEPT ![w] = TRUE]
    /\ stop_seen' = [stop_seen EXCEPT ![w] =
                        IF @ = NONE
                        THEN Some([called |-> Len(called[w]), delivered |-> Delivered(w),
                                   pc |-> w_pc[w]])
                        ELSE @]

\* lines 421-424: a click on Stop, up to the call of join
OnStopTest ==
    /\ ui_pc = "idle"
    /\ stop_enabled
    /\ IF worker # 0 /\ is_alive(worker)
       THEN /\ stop(worker)
            /\ ui_pc' = "joining"
            /\ UNCHANGED <<start_enabled, stop_enabled, progress_text>>
       ELSE /\ reset_ui
            /\ UNCHANGED <<ui_pc, w_stop, stop_seen>>
    /\ UNCHANGED <<worker, results, grid, queue, w_pc, w_models, w_i, w_results, w_client,
                   w_crashed, emitted, called, stream_vars, model_vars>>

\* lines 425-426: join(timeout=1) returns, the thread ended or the second elapsed
\* with the thread still alive, and the UI is reset either way
OnStopTestJoined ==
    /\ ui_pc = "joining"
    /\ ui_pc' = "idle"
    /\ reset_ui
    /\ UNCHANGED <<worker, results, grid, queue, worker_vars, stream_vars, model_vars>>

\* lines 551-562, run by the UI thread's event loop for the oldest pending call
on_worker_callback(msg_type, data) ==
    IF msg_type = "progress"
    THEN /\ progress_text' = Label("testing", data.current, data.total, data.model)
         /\ UNCHANGED <<start_enabled, stop_enabled, results, grid>>
    ELSE IF msg_type = "result"
    THEN /\ results' = Append(results, data)
         /\ grid' = add_result(grid, data)
         /\ UNCHANGED <<start_enabled, stop_enabled, progress_text>>
    ELSE IF msg_type = "completed"
    THEN /\ reset_ui
         /\ UNCHANGED <<results, grid>>
    ELSE UNCHANGED <<start_enabled, stop_enabled, progress_text, results, grid>>

\* lines 428-448: a click on Export. self.results is read (line 430, line 441)
\* and, unless it is empty or the file dialog is cancelled, written to a file;
\* nothing of the frame is assigned.
on_export_results(cancelled) ==
    /\ ui_pc = "idle"
    /\ UNCHANGED vars

OnExportResults == \E cancelled \in BOOLEAN : on_export_results(cancelled)

Dispatch ==
    /\ ui_pc = "idle"
    /\ queue # <<>>
    /\ queue' = Tail(queue)
    /\ on_worker_callback(Head(queue).type, Head(queue).data)
    /\ UNCHANGED <<ui_pc, worker, worker_vars, stream_vars, model_vars>>

\* line 184 without the check: the stop flag is never looked at (a faulty variant)
break_never(w) == FALSE

\* line 184: if self._stop_event.is_set(): break
break_requested(w) == w_stop[w]

\* lines 183-191 and 203: the head of the loop. With a model left and no stop
\* requested, the progress notification; otherwise the completed one.
WorkerLoop(w) ==
    /\ w_pc[w] = "loop"
    /\ IF w_i[w] < Len(w_models[w]) /\ ~break_requested(w)
       THEN /\ CallAfter(w, "progress", [current |-> w_i[w] + 1,
                                         total |-> Len(w_models[w]),
                                         model |-> w_models[w][w_i[w] + 1]])
            /\ w_pc' = [w_pc EXCEPT ![w] = "call"]
       ELSE /\ CallAfter(w, "completed", w_results[w])
            /\ w_pc' = [w_pc EXCEPT ![w] = "exiting"]
    /\ UNCHANGED <<ui_pc, start_enabled, stop_enabled, progress_text, worker, results, grid,
                   w_models, w_i, w_results, w_stop, w_client, w_crashed, called, stop_seen,
                   stream_vars, model_vars>>

\* lines 193 and 77-90: test_model is entered and obtains the thread's client. An
\* exception of the Ark constructor is caught nowhere: it ends run().
WorkerCall(w) ==
    /\ w_pc[w] = "call"
    /\ called' = [called EXCEPT ![w] = Append(@, w_models[w][w_i[w] + 1])]
    /\ \E ctor_ok \in BOOLEAN :
          LET c == get_client(w_client[w], ctor_ok) IN
          IF c.raised
          THEN /\ w_pc' = [w_pc EXCEPT ![w] = "dead"]
               /\ w_crashed' = [w_crashed EXCEPT ![w] = TRUE]
               /\ UNCHANGED w_client
          ELSE /\ w_pc' = [w_pc EXCEPT ![w] = "request"]
               /\ w_client' = [w_client EXCEPT ![w] = c.cached]
               /\ UNCHANGED w_crashed
    /\ UNCHANGED <<ui_vars, w_models, w_i, w_results, w_stop, emitted, stop_seen,
                   stream_vars, model_vars>>

\* line 199 inserting at the front: the newest result first (a faulty variant)
prepend_result(rs, result) == <<result>> \o rs

\* line 199: results.append(result)
append_result(rs, result) == Append(rs, result)

\* lines 92-159 and 199-201: the request ends, in a result dict that is appended
\* to the local list and handed to the UI thread
WorkerRequest(w) ==
    /\ w_pc[w] = "request"
    /\ \E resp \in WorkerResponses :
          LET result == test_model_try(w_models[w][w_i[w] + 1], resp) IN
          /\ w_results' = [w_results EXCEPT ![w] = append_result(@, result)]
          /\ CallAfter(w, "result", result)
    /\ w_i' = [w_i EXCEPT ![w] = @ + 1]
    /\ w_pc' = [w_pc EXCEPT ![w] = "loop"]
    /\ UNCHANGED <<ui_pc, start_enabled, stop_enabled, progress_text, worker, results, grid,
                   w_models, w_stop, w_client, w_crashed, called, stop_seen,
                   stream_vars, model_vars>>

\* run() returns after line 203 and the thread ends
WorkerExit(w) ==
    /\ w_pc[w] = "exiting"
    /\ w_pc' = [w_pc EXCEPT ![w] = "dead"]
    /\ UNCHANGED <<ui_vars, w_models, w_i, w_results, w_stop, w_client, w_crashed, emitted,
                   called, stop_seen, stream_vars, model_vars>>

(***************************************************************************)
(* SpecModels: the model list, its edit dialog and its fetch thread        *)
(***************************************************************************)
Name(token) == <<token>>

\* lines 264-275
default_models ==
    << Name("doubao-seed-1-6-251015"),
       Name("doubao-seed-1-6-vision-250815"),
       Name("doubao-seed-1-6-thinking-250615"),
       Name("doubao-seed-1-6-thinking-250715"),
       Name("doubao-seed-1-6-flash-250828"),
       Name("doubao-seed-1-6-flash-250615"),
       Name("doubao-seed-1-6-flash-250715"),
       Name("kimi-k2-250905"),
       Name("deepseek-v3-1-terminus"),
       Name("deepseek-v3-1-250821") >>

RECURSIVE lstrip(_)
lstrip(s) == IF s # <<>> /\ Head(s) = " " THEN lstrip(Tail(s)) ELSE s

RECURSIVE rstrip(_)
rstrip(s) == IF s # <<>> /\ s[Len(s)] = " " THEN rstrip(SubSeq(s, 1, Len(s) - 1)) ELSE s

\* str.strip()
strip(s) == rstrip(lstrip(s))

Range(seq) == {seq[k] : k \in 1..Len(seq)}

\* [x for x in seq if x in keep]
Filter(seq, keep) ==
    LET F[k \in 0..Len(seq)] ==
            IF k = 0 THEN <<>>
            ELSE IF seq[k] \in keep THEN Append(F[k - 1], seq[k]) ELSE F[k - 1]
    IN F[Len(seq)]

\* line 528 without the test of seen: a repeated name is kept (a faulty variant)
keep_name_despite_seen(name, seen) == name # <<>>

\* line 528: a blank name and a name already seen are skipped
keep_name(name, seen) == ~(name = <<>> \/ name \in seen)

RECURSIVE unique_models(_, _, _, _)
\* lines 524-531: the loop, from the k-th model on
unique_models(models, k, seen, acc) ==
    IF k > Len(models) THEN acc
    ELSE LET name == strip(models[k]) IN
         IF keep_name(name, seen)
         THEN unique_models(models, k + 1, seen \cup {name}, Append(acc, name))
         ELSE unique_models(models, k + 1, seen, acc)

\* lines 523-544: the new current_models and the new checked strings
update_model_list(models, previous_checked) ==
    LET unique == unique_models(models, 1, {}, <<>>) IN
    [current_models |-> unique,
     checked |-> IF unique # <<>> /\ previous_checked # <<>>
                 THEN Filter(unique, Range(previous_checked))
                 ELSE <<>>]

Fetches == 1..MaxFetches

RawNames == { <<" ">>, <<"x">>, <<"y">>, <<" ", "x", " ">> }

\* the lists list_models can return: never empty (line 64), entries of any form
FetchedLists == UNION {[1..n -> RawNames] : n \in 1..MaxEntries}

\* the lines the user leaves in the edit dialog
EditedTexts ==
    { <<>>,
      <<<<" ">>, <<>>>>,
      <<<<"x">>, <<"y">>>>,
      <<<<" ", "x", " ">>, <<"x">>, <<"X">>, <<>>>>,
      <<Name("kimi-k2-250905"), <<"y">>, Name("kimi-k2-250905")>> }

fetch_alive(t) == fetch_pc[t] \in {"running", "posted"}

FetchStarted == {t \in Fetches : fetch_pc[t] # "unstarted"}

InitModels ==
    /\ current_models = default_models
    /\ checked = <<>>
    /\ load_enabled = TRUE
    /\ fetch_pc = [t \in Fetches |-> "unstarted"]
    /\ fetch_thread = 0
    /\ mqueue = <<>>
    /\ loaded = [t \in Fetches |-> 0]
    /\ fetch_rejected = FALSE
    /\ last_update = NONE

\* line 457 without the check: a fetch in progress goes unnoticed (a faulty variant)
fetch_in_progress_unnoticed == FALSE

\* line 457: self.model_fetch_thread and self.model_fetch_thread.is_alive()
fetch_in_progress == fetch_thread # 0 /\ fetch_alive(fetch_thread)

\* lines 450-473: a click on the load button
on_load_models(api_key) ==
    /\ load_enabled
    /\ IF api_key = "" THEN UNCHANGED vars
       ELSE IF fetch_in_progress
       THEN /\ fetch_rejected' = TRUE
            /\ UNCHANGED <<current_models, checked, load_enabled, fetch_pc, fetch_thread,
                           mqueue, loaded, last_update, stream_vars, ui_vars, worker_vars>>
       ELSE /\ Cardinality(FetchStarted) < MaxFetches
            /\ LET t == Cardinality(FetchStarted) + 1 IN
               /\ fetch_thread' = t
               /\ fetch_pc' = [fetch_pc EXCEPT ![t] = "running"]
            /\ load_enabled' = FALSE
            /\ progress_text' = Label("loading models", 0, 0, "")
            /\ last_update' = NONE
            /\ UNCHANGED <<current_models, checked, mqueue, loaded, fetch_rejected,
                           stream_vars, worker_vars,
                           ui_pc, start_enabled, stop_enabled, worker, results, grid, queue>>

OnLoadModels == \E api_key \in {"", "key"} : on_load_models(api_key)

\* lines 464-470: the thread's function: list_models returns a list or raises, and
\* either way one on_models_loaded call is handed to the UI thread
FetchRun(t) ==
    /\ fetch_pc[t] = "running"
    /\ \/ \E models \in FetchedLists :
             mqueue' = Append(mqueue, [t |-> t, success |-> TRUE, payload |-> models])
       \/ mqueue' = Append(mqueue, [t |-> t, success |-> FALSE, payload |-> "error"])
    /\ fetch_pc' = [fetch_pc EXCEPT ![t] = "posted"]
    /\ UNCHANGED <<current_models, checked, load_enabled, fetch_thread, loaded,
                   fetch_rejected, last_update, stream_vars, ui_vars, worker_vars>>

\* the thread's function returns and the thread ends
FetchExit(t) ==
    /\ fetch_pc[t] = "posted"
    /\ fetch_pc' = [fetch_pc EXCEPT ![t] = "dead"]
    /\ UNCHANGED <<current_models, checked, load_enabled, fetch_thread, mqueue, loaded,
                   fetch_rejected, last_update, stream_vars, ui_vars, worker_vars>>

\* lines 475-490
on_models_loaded(success, payload) ==
    /\ load_enabled' = TRUE
    /\ IF success
       THEN IF payload = <<>>
            THEN /\ progress_text' = Label("API returned no models", 0, 0, "")
                 /\ UNCHANGED <<current_models, checked, last_update>>
            ELSE LET new == update_model_list(payload, checked) IN
                 /\ current_models' = new.current_models
                 /\ checked' = new.checked
                 /\ progress_text' = Label("models loaded", Len(new.current_models), 0, "")
                 /\ last_update' = Some(payload)
       ELSE /\ progress_text' = Label("loading models failed", 0, 0, "")
            /\ UNCHANGED <<current_models, checked, last_update>>

DispatchModels ==
    /\ mqueue # <<>>
    /\ mqueue' = Tail(mqueue)
    /\ loaded' = [loaded EXCEPT ![Head(mqueue).t] = @ + 1]
    /\ on_models_loaded(Head(mqueue).success, Head(mqueue).payload)
    /\ UNCHANGED <<fetch_pc, fetch_thread, fetch_rejected, stream_vars, worker_vars,
                   ui_pc, start_enabled, stop_enabled, worker, results, grid, queue>>

\* [line.strip() for line in lines if line.strip()]
stripped_lines(lines) ==
    LET F[k \in 0..Len(lines)] ==
            IF k = 0 THEN <<>>
            ELSE IF strip(lines[k]) # <<>> THEN Append(F[k - 1], strip(lines[k])) ELSE F[k - 1]
    IN F[Len(lines)]

\* lines 500-521: the edit dialog, closed with OK or cancelled
on_edit_models(ok, lines) ==
    IF ~ok THEN UNCHANGED vars
    ELSE LET new_models == stripped_lines(lines) IN
         IF new_models = <<>> THEN UNCHANGED vars
         ELSE LET new == update_model_list(new_models, checked) IN
              /\ current_models' = new.current_models
              /\ checked' = new.checked
              /\ progress_text' = Label("model count", Len(new.current_models), 0, "")
              /\ last_update' = Some(new_models)
              /\ UNCHANGED <<load_enabled, fetch_pc, fetch_thread, mqueue, loaded,
                             fetch_rejected, stream_vars,
                             worker_vars, ui_pc, start_enabled, stop_enabled, worker,
                             results, grid, queue>>

OnEditModels == \E ok \in BOOLEAN, lines \in EditedTexts : on_edit_models(ok, lines)

\* lines 492-495
OnSelectAllModels ==
    /\ checked' = current_models
    /\ UNCHANGED <<current_models, load_enabled, fetch_pc, fetch_thread, mqueue, loaded,
                   fetch_rejected, last_update, stream_vars, ui_vars, worker_vars>>

\* lines 497-498
OnClearModelSelection ==
    /\ checked' = <<>>
    /\ UNCHANGED <<current_models, load_enabled, fetch_pc, fetch_thread, mqueue, loaded,
                   fetch_rejected, last_update, stream_vars, ui_vars, worker_vars>>

(***************************************************************************)
(* The specifications                                                      *)
(***************************************************************************)
Init == IdleStream /\ InitRunner /\ InitModels

Next ==
    \/ OnStartTest
    \/ OnStopTest
    \/ OnStopTestJoined
    \/ OnExportResults
    \/ Dispatch
    \/ \E w \in Workers : WorkerLoop(w)
    \/ \E w \in Workers : WorkerCall(w)
    \/ \E w \in Workers : WorkerRequest(w)
    \/ \E w \in Workers : WorkerExit(w)

Spec == Init /\ [][Next]_vars

\* The event loop runs every pending call, join returns, and every thread runs on
\* (each network call returns). Clicks are the user's: nothing forces them.
Fairness ==
    /\ WF_vars(Dispatch)
    /\ WF_vars(OnStopTestJoined)
    /\ \A w \in Workers :
          WF_vars(WorkerLoop(w) \/ WorkerCall(w) \/ WorkerRequest(w) \/ WorkerExit(w))

\* one run: the first click on Start that starts a worker is the only one
OnFirstStartTest == Started = {} /\ OnStartTest

NextLive ==
    \/ OnFirstStartTest
    \/ OnStopTest
    \/ OnStopTestJoined
    \/ Dispatch
    \/ \E w \in Workers : WorkerLoop(w)
    \/ \E w \in Workers : WorkerCall(w)
    \/ \E w \in Workers : WorkerRequest(w)
    \/ \E w \in Workers : WorkerExit(w)

SpecLive == Init /\ [][NextLive]_vars /\ Fairness

InitS == InitStream /\ InitRunner /\ InitModels

NextStream == RunTestModel

SpecStream == InitS /\ [][NextStream]_vars

InitM == IdleStream /\ InitRunner /\ InitModels

NextModels ==
    \/ OnLoadModels
    \/ \E t \in Fetches : FetchRun(t)
    \/ \E t \in Fetches : FetchExit(t)
    \/ DispatchModels
    \/ OnEditModels
    \/ OnSelectAllModels
    \/ OnClearModelSelection

SpecModels == InitM /\ [][NextModels]_vars

(***************************************************************************)
(* Claims: the test runner (Spec, SpecLive)                                *)
(***************************************************************************)
Alive == {w \in Workers : is_alive(w)}

\* C1: at most one TestWorker thread is alive at any time.
C1_AtMostOneWorkerAlive == Cardinality(Alive) <= 1

\* the positions of the completed notifications among those worker w emitted
CompletedAt(w) == {k \in 1..Len(emitted[w]) : emitted[w][k].type = "completed"}

ModelsOf(rs) == [k \in 1..Len(rs) |-> rs[k].model]

\* the results are those of the first models of the list, in list order
InListOrder(rs, models) ==
    /\ Len(rs) <= Len(models)
    /\ ModelsOf(rs) = SubSeq(models, 1, Len(rs))

LastOf(seq) == seq[Len(seq)]

C3Step(w) ==
    \* the check finds the flag set: the completed notification, and nothing else
    /\ (w_pc[w] = "loop" /\ w_stop[w] /\ w_pc'[w] # "loop")
       => /\ w_pc'[w] = "exiting"
          /\ called'[w] = called[w]
          /\ emitted'[w] = Append(emitted[w], [type |-> "completed", data |-> w_results[w]])
    \* after the completed notification: no notification, no test_model
    /\ w_pc[w] \in {"exiting", "dead"}
       => /\ w_pc'[w] \in {"exiting", "dead"}
          /\ called'[w] = called[w]
          /\ emitted'[w] = emitted[w]
    \* stop() leaves a request in flight alone
    /\ (w_pc[w] = "request" /\ ~w_stop[w] /\ w_stop'[w])
       => /\ w_pc'[w] = "request"
          /\ w_results'[w] = w_results[w]
          /\ emitted'[w] = emitted[w]
    \* a request in flight with the flag set ends in a result, kept and emitted
    /\ (w_pc[w] = "request" /\ w_stop[w] /\ w_pc'[w] # "request")
       => /\ w_pc'[w] = "loop"
          /\ Len(w_results'[w]) = Len(w_results[w]) + 1
          /\ SubSeq(w_results'[w], 1, Len(w_results[w])) = w_results[w]
          /\ LastOf(w_results'[w]).model = LastOf(called[w])
          /\ emitted'[w] = Append(emitted[w], [type |-> "result",
                                               data |-> LastOf(w_results'[w])])

\* C3: cancellation acts at the check before a model only: a worker that finds
\* the stop flag set there emits the completed notification and then neither
\* emits a notification nor invokes test_model; stop() does not abort a request
\* in flight, whose result is appended and emitted as a result notification.
C3_CancellationAtModelBoundaries == [][\A w \in Workers : C3Step(w)]_vars

\* stop() came while a request was in flight; the run ended early with that
\* request's result in its list
C3_Witness ==
    \E w \in Workers :
        /\ stop_seen[w] # NONE
        /\ stop_seen[w][1].pc = "request"
        /\ w_pc[w] = "dead"
        /\ ~w_crashed[w]
        /\ Len(w_results[w]) = stop_seen[w][1].called
        /\ Len(w_results[w]) < Len(w_models[w])
        /\ LastOf(emitted[w]).type = "completed"

ProgressData(w, k) ==
    [current |-> k, total |-> Len(w_models[w]), model |-> w_models[w][k]]

\* progress(1), result(1), ..., progress(n), result(n), completed(results)
RunShape(w) ==
    LET e == emitted[w]
        n == Len(w_results[w])
    IN /\ Len(e) = 2 * n + 1
       /\ \A k \in 1..n :
             /\ e[2 * k - 1].type = "progress"
             /\ e[2 * k - 1].data = ProgressData(w, k)
             /\ e[2 * k].type = "result"
             /\ e[2 * k].data = w_results[w][k]
       /\ e[2 * n + 1].type = "completed"
       /\ e[2 * n + 1].data = w_results[w]
       /\ InListOrder(w_results[w], w_models[w])

\* C4: a run that has ended emitted exactly one completed notification, after
\* all its result notifications and carrying exactly their results, one per
\* model of a prefix of the list; the notifications are progress(1), result(1),
\* ..., completed, progress carrying the 1-based index and the total.
C4_EveryRunEndsWithOneCompleted ==
    \A w \in Workers : w_pc[w] = "dead" => RunShape(w)

UIIdle == start_enabled /\ ~stop_enabled /\ Alive = {}

\* C10: after a Start the UI eventually has Start enabled, Stop disabled and no
\* worker running.
C10_EventuallyIdle == (worker # 0) ~> UIIdle

(***************************************************************************)
(* Claims: test_model (SpecStream)                                         *)
(***************************************************************************)
Returned == tm_pc = "done" /\ ~tm_out.raised

\* the call met a failure: of the client's construction, of the request, or
\* raised by the stream
FailureInput ==
    \/ get_client(tm_in.cached, tm_in.ctor_ok).raised
    \/ tm_in.resp.kind = "create_raises"
    \/ (tm_in.resp.kind = "stream" /\ tm_in.resp.exc # NONE)

FailureShaped(r) ==
    /\ ~r.success
    /\ r.first_token_time = NONE
    /\ r.total_time = NONE
    /\ "error" \in DOMAIN r
    /\ r.error # ""

\* C5: no failure leaves test_model: the call returns, and after a failure it
\* returns success=false, no times and a non-empty error.
C5_FailuresStayInsideTestModel ==
    tm_pc = "done"
    => /\ ~tm_out.raised
       /\ FailureInput => FailureShaped(tm_out.value[1])

\* some fragment of the stream is non-empty
SomeFragment(chunks) ==
    \E n \in 1..Len(chunks) : \E k \in 1..Len(chunks[n].choices) :
        /\ chunks[n].choices[k].delta # NONE
        /\ Piece(chunks[n].choices[k].delta[1]) # ""

\* C6: a success result has both times, first_token_time <= total_time, and the
\* two equal when the stream had no non-empty fragment; a failure result has no
\* times and an error.
C6_TestResultInvariant ==
    Returned
    => LET r == tm_out.value[1] IN
       IF r.success
       THEN /\ r.first_token_time # NONE
            /\ r.total_time # NONE
            /\ r.first_token_time[1] <= r.total_time[1]
            /\ (tm_in.resp.kind = "stream" /\ ~SomeFragment(tm_in.resp.chunks))
               => r.first_token_time = r.total_time
       ELSE FailureShaped(r)

\* a stream of chunks without any non-empty fragment: both times are the total
C6_Witness ==
    /\ Returned
    /\ tm_in.resp.kind = "stream"
    /\ Len(tm_in.resp.chunks) >= 1
    /\ ~SomeFragment(tm_in.resp.chunks)
    /\ tm_out.value[1].success
    /\ tm_out.value[1].total_time[1] > 0
    /\ tm_out.value[1].first_token_time = tm_out.value[1].total_time

\* the body of a complete message: the content of its first choice, if any
MessageBody(choices) ==
    IF choices # <<>> /\ choices[1].message # NONE /\ choices[1].message[1].content # NONE
    THEN choices[1].message[1].content[1]
    ELSE ""

\* C7: for a complete message the result is a success with first_token_time
\* equal to total_time and response_length the length of the message body.
C7_CompleteMessageTimesEqual ==
    (Returned /\ tm_in.resp.kind = "completion")
    => LET r == tm_out.value[1] IN
       /\ r.success
       /\ r.first_token_time = r.total_time
       /\ r.response_length = Len(MessageBody(tm_in.resp.choices))

(***************************************************************************)
(* Claims: the model list (SpecModels)                                     *)
(***************************************************************************)
\* t is s without its leading and trailing whitespace
IsStripOf(t, s) ==
    \E i \in 1..(Len(s) + 1), j \in 0..Len(s) :
        /\ t = SubSeq(s, i, j)
        /\ \A k \in 1..(i - 1) : s[k] = " "
        /\ \A k \in (j + 1)..Len(s) : s[k] = " "
        /\ t # <<>> => (t[1] # " " /\ t[Len(t)] # " ")

NoDuplicateNoBlank(list) ==
    /\ \A k \in 1..Len(list) : list[k] # <<>> /\ IsStripOf(list[k], list[k])
    /\ \A k1, k2 \in 1..Len(list) : k1 # k2 => list[k1] # list[k2]

\* the first entry of models that t is the trimmed form of
FirstIndex(t, models) ==
    CHOOSE m \in 1..Len(models) :
        /\ IsStripOf(t, models[m])
        /\ \A n \in 1..(m - 1) : ~IsStripOf(t, models[n])

\* list is the trimmed non-blank entries of models, each once, by first occurrence
FirstOccurrences(list, models) ==
    /\ \A k \in 1..Len(list) : \E m \in 1..Len(models) : IsStripOf(list[k], models[m])
    /\ \A m \in 1..Len(models) :
          IsStripOf(<<>>, models[m]) \/ \E k \in 1..Len(list) : IsStripOf(list[k], models[m])
    /\ \A k1, k2 \in 1..Len(list) :
          k1 < k2 => FirstIndex(list[k1], models) < FirstIndex(list[k2], models)

\* C8: current_models never holds a duplicate or a blank identifier, and
\* update_model_list(models) sets it to the trimmed non-blank entries of models
\* in order of first occurrence.
C8_ModelListUnique ==
    /\ NoDuplicateNoBlank(current_models)
    /\ last_update # NONE => FirstOccurrences(current_models, last_update[1])

\* update_model_list(["x", "x", "y", " "]) has set the list to ["x", "y"]
C8_Witness ==
    /\ last_update = Some(<< <<"x">>, <<"x">>, <<"y">>, <<" ">> >>)
    /\ current_models = << <<"x">>, <<"y">> >>

Pending(t) == Cardinality({k \in 1..Len(mqueue) : mqueue[k].t = t})

C9Always ==
    /\ Cardinality({t \in Fetches : fetch_alive(t)}) <= 1
    /\ \A t \in Fetches :
          /\ loaded[t] <= 1
          /\ loaded[t] + Pending(t) = IF fetch_pc[t] \in {"posted", "dead"} THEN 1 ELSE 0

C9Step ==
    \* no thread starts while one is alive
    /\ \A t \in Fetches :
          (fetch_pc[t] = "unstarted" /\ fetch_pc'[t] # "unstarted")
          => \A u \in Fetches : ~fetch_alive(u)
    \* a refused request changes neither the model list nor the fetch state
    /\ (fetch_rejected' /\ ~fetch_rejected)
       => /\ \E u \in Fetches : fetch_alive(u)
          /\ UNCHANGED <<current_models, checked, load_enabled, fetch_pc, fetch_thread,
                         mqueue, loaded>>

\* C9: at most one fetch thread is alive; a load request made while one is alive
\* starts no thread and changes neither the model list nor the fetch state; a
\* fetch hands exactly one on_models_loaded call to the UI thread, run at most once.
C9_FetchMutualExclusion == []C9Always /\ [][C9Step]_vars

\* a load request was refused, and a fetch thread ended with its one callback run
C9_Witness ==
    /\ fetch_rejected
    /\ \E t \in Fetches : fetch_pc[t] = "dead" /\ loaded[t] = 1


(***************************************************************************)
(* C11                                                                     *)
(***************************************************************************)
\* the grid shows self.results: as many rows as entries, row k made from entry k
GridShowsResults ==
    /\ Len(grid) = Len(results)
    /\ \A k \in 1..Len(results) : grid[k] = grid_row(results[k])

\* the UI thread runs the oldest pending call, a result notification: its data
\* becomes the last entry and its row the last row
ResultReceived ==
    /\ ui_pc = "idle"
    /\ queue # <<>>
    /\ Head(queue).type = "result"
    /\ queue' = Tail(queue)
    /\ results' = Append(results, Head(queue).data)
    /\ grid' = Append(grid, grid_row(Head(queue).data))

C11Step == ResultReceived \/ (results' = results /\ grid' = grid)

\* C11: self.results and the grid grow in lockstep and only by result
\* notifications. Always the grid has one row per entry of self.results, row k
\* made from entry k; every step either is the UI thread running a pending
\* result notification, which appends its data to self.results and its row to
\* the grid, or leaves both as they are (start, stop, join, progress, completed,
\* export, every step of a worker). So the results of an earlier run are kept
\* when a new run starts, and a result that arrives after Stop is appended.
C11_ResultsAndGridInLockstep == []GridShowsResults /\ [][C11Step]_vars

\* a second run was started with the first run's results kept, a result of the
\* first run was received after Stop was clicked, and a result of the second run
\* followed it
C11_Witness ==
    /\ worker = 2
    /\ stop_seen[1] # NONE
    /\ Delivered(1) > stop_seen[1][1].delivered
    /\ Delivered(2) >= 1
    /\ Len(results) = Delivered(1) + Delivered(2)
    /\ results[Len(results)].model \in Range(w_models[2])
    /\ GridShowsResults


(***************************************************************************)
(* C12                                                                     *)
(***************************************************************************)
\* the piece of the k-th choice of a chunk: empty for a null delta
PieceAt(chunk, k) ==
    IF chunk.choices[k].delta = NONE THEN "" ELSE Piece(chunk.choices[k].delta[1])

\* the non-empty pieces of a chunk, in the order of its choices
PiecesOf(chunk) ==
    LET P[k \in 0..Len(chunk.choices)] ==
            IF k = 0 THEN <<>>
            ELSE IF PieceAt(chunk, k) = "" THEN P[k - 1]
            ELSE Append(P[k - 1], PieceAt(chunk, k))
    IN P[Len(chunk.choices)]

\* the non-empty pieces of the first n chunks, in arrival order
NonEmptyPieces(chunks, n) ==
    LET A[m \in 0..n] == IF m = 0 THEN <<>> ELSE A[m - 1] \o PiecesOf(chunks[m])
    IN A[n]

\* the sum of the lengths of the strings of a sequence
SumOfLengths(pieces) ==
    LET S[k \in 0..Len(pieces)] == IF k = 0 THEN 0 ELSE S[k - 1] + Len(pieces[k])
    IN S[Len(pieces)]

\* the first of the first n chunks that has a non-empty piece; 0 if there is none
FirstFragment(chunks, n) ==
    IF \E m \in 1..n : PiecesOf(chunks[m]) # <<>>
    THEN CHOOSE m \in 1..n :
            /\ PiecesOf(chunks[m]) # <<>>
            /\ \A j \in 1..(m - 1) : PiecesOf(chunks[j]) = <<>>
    ELSE 0

\* first_token_time and collected_parts after the first n chunks of the stream
StreamState(n) ==
    consume_stream(SubSeq(tm_in.resp.chunks, 1, n), 1, tm_in.resp.t0,
                   [first_token_time |-> NONE, collected_parts |-> <<>>])

\* C12: in the streaming consumer, after every number of chunks,
\* first_token_time is unset while no piece (reasoning text followed by content
\* text of one delta) was non-empty, and from the first non-empty piece on it is
\* the time of that piece's chunk since the start, whatever comes later; the
\* buffer holds the non-empty pieces in arrival order and nothing else, so
\* chunks without choices, null deltas and empty pieces change neither; and the
\* result's response_length is the sum of the lengths of the non-empty pieces.
C12_FirstTokenRecordedOnce ==
    (Returned /\ tm_in.resp.kind = "stream")
    => LET chunks == tm_in.resp.chunks
           t0 == tm_in.resp.t0
           r == tm_out.value[1]
       IN /\ \A n \in 0..Len(chunks) :
                LET f == FirstFragment(chunks, n) IN
                /\ StreamState(n).first_token_time =
                      (IF f = 0 THEN NONE ELSE Some(chunks[f].at - t0))
                /\ StreamState(n).collected_parts = NonEmptyPieces(chunks, n)
          /\ r.success
             => /\ r.response_length = SumOfLengths(NonEmptyPieces(chunks, Len(chunks)))
                /\ FirstFragment(chunks, Len(chunks)) # 0
                   => r.first_token_time =
                         Some(chunks[FirstFragment(chunks, Len(chunks))].at - t0)

\* two chunks with non-empty pieces at different times, the first with a
\* reasoning piece and a content piece: first_token_time is the first chunk's
\* time and the length counts all three pieces
C12_Witness ==
    /\ Returned
    /\ tm_in.resp.kind = "stream"
    /\ tm_out.value[1].success
    /\ Len(tm_in.resp.chunks) = 2
    /\ Len(PiecesOf(tm_in.resp.chunks[1])) = 2
    /\ Len(PiecesOf(tm_in.resp.chunks[2])) = 1
    /\ tm_in.resp.chunks[1].at < tm_in.resp.chunks[2].at
    /\ tm_out.value[1].first_token_time = Some(tm_in.resp.chunks[1].at - tm_in.resp.t0)
    /\ tm_out.value[1].first_token_time[1] > 0
    /\ tm_out.value[1].response_length = 3

====
